---- MODULE Spec2Model ----
(***************************************************************************)
(* A model of SumsubWrapper (src/main.py): the request signer, the HTTP    *)
(* transport built on the requests library, and the four applicant         *)
(* operations.                                                             *)
(*                                                                         *)
(* Python values are tagged records.  A Python string is a sequence of     *)
(* lexical tokens (TLA+ strings); concatenation is \o.  HMAC-SHA256 is an  *)
(* uninterpreted, collision-free function of its key and message: its      *)
(* digest is the record of what was hashed.                                *)
(***************************************************************************)
EXTENDS Integers, Sequences, FiniteSets, TLC

VARIABLES
    self,       \* the SumsubWrapper instance: sumsub_secret, app_token, base_url
    clock,      \* time.time(), in whole seconds
    document,   \* content of some_document.jpg, or None when the file is missing
    written,    \* the <applicant_id>.json files written so far
    stdout,     \* lines printed so far
    sent,       \* every request handed to session.send, in order
    last        \* the last call: operation, arguments, clock, result, requests it sent

vars == <<self, clock, document, written, stdout, sent, last>>

---------------------------------------------------------------------------
(* Bounds of the model *)

\* the clock advances at most this many seconds
MaxTicks == 1
\* at most this many requests are sent in one behaviour
MaxSent == 2

---------------------------------------------------------------------------
(* Python values *)

None == [t |-> "none"]
PyStr(s) == [t |-> "str", s |-> s]
PyInt(n) == [t |-> "int", n |-> n]
PyBytes(b) == [t |-> "bytes", b |-> b]
\* a dict is its items in insertion order, each <<key, value>>
PyDict(items) == [t |-> "dict", items |-> items]

Return(v) == [kind |-> "return", value |-> v]
Raise(exc, response) == [kind |-> "raise", exc |-> exc, response |-> response]

DictHas(d, k) == \E i \in 1..Len(d.items) : d.items[i][1] = k

DictGet(d, k) ==
    IF DictHas(d, k)
    THEN d.items[CHOOSE i \in 1..Len(d.items) : d.items[i][1] = k][2]
    ELSE None

\* d[k] = v
DictSet(d, k, v) ==
    IF DictHas(d, k)
    THEN PyDict([i \in 1..Len(d.items) |->
                    IF d.items[i][1] = k THEN <<k, v>> ELSE d.items[i]])
    ELSE PyDict(Append(d.items, <<k, v>>))

RECURSIVE DictUpdateFrom(_, _, _)
DictUpdateFrom(d, other, i) ==
    IF i > Len(other.items) THEN d
    ELSE DictUpdateFrom(DictSet(d, other.items[i][1], other.items[i][2]), other, i + 1)

\* d.update(other)
DictUpdate(d, other) == DictUpdateFrom(d, other, 1)

\* str(v), as an f-string field formats it
Format(v) ==
    CASE v.t = "str" -> v.s
      [] v.t = "int" -> <<ToString(v.n)>>
      [] v.t = "none" -> <<"None">>

UpperToken(tok) ==
    CASE tok = "get" -> "GET"
      [] tok = "Get" -> "GET"
      [] tok = "post" -> "POST"
      [] tok = "Post" -> "POST"
      [] OTHER -> tok

\* str.upper()
Upper(s) == [i \in 1..Len(s) |-> UpperToken(s[i])]

\* the escaping json.dumps applies inside a string literal
JsonEscape(s) ==
    [i \in 1..Len(s) |->
        CASE s[i] = "\"" -> "\\\""
          [] s[i] = "\\" -> "\\\\"
          [] s[i] = "\n" -> "\\n"
          [] OTHER -> s[i]]

JsonString(s) == <<"\"">> \o JsonEscape(s) \o <<"\"">>

RECURSIVE JsonDumps(_)
RECURSIVE JsonItems(_, _)
JsonItems(items, i) ==
    IF i > Len(items) THEN <<>>
    ELSE (IF i > 1 THEN <<", ">> ELSE <<>>)
         \o JsonString(<<items[i][1]>>) \o <<": ">> \o JsonDumps(items[i][2])
         \o JsonItems(items, i + 1)

\* json.dumps(v) with the default separators
JsonDumps(v) ==
    CASE v.t = "none" -> <<"null">>
      [] v.t = "int" -> <<ToString(v.n)>>
      [] v.t = "str" -> JsonString(v.s)
      [] v.t = "dict" -> <<"{">> \o JsonItems(v.items, 1) \o <<"}">>

\* str.encode()
Encode(s) == PyBytes(s.s)

\* hmac.new(key, msg, hashlib.sha256).hexdigest()
HmacSha256Hex(key, msg) == [t |-> "hexdigest", key |-> key, msg |-> msg]

---------------------------------------------------------------------------
(* SumsubWrapper._sign_request *)

\* the signer without method.upper()
sign_request_raw_method(slf, method, path, body, now) ==
    LET timestamp == <<ToString(now)>>
        message == method.s \o <<"\n">> \o Format(path) \o <<"\n">>
                   \o timestamp \o <<"\n">> \o JsonDumps(body)
    IN  IF slf.sumsub_secret.t = "none"
        THEN Raise("AttributeError", None)
        ELSE Return(PyDict(<<
                <<"X-App-Token", slf.app_token>>,
                <<"X-App-Access-Sig",
                  HmacSha256Hex(Encode(slf.sumsub_secret), Encode(PyStr(message)))>>,
                <<"X-App-Access-Ts", PyStr(timestamp)>> >>))

\* the signer with a timestamp captured once, when the client was built
sign_request_cached_timestamp(slf, method, path, body, now) ==
    LET timestamp == <<ToString(1700000000)>>
        message == Upper(method.s) \o <<"\n">> \o Format(path) \o <<"\n">>
                   \o timestamp \o <<"\n">> \o JsonDumps(body)
    IN  IF slf.sumsub_secret.t = "none"
        THEN Raise("AttributeError", None)
        ELSE Return(PyDict(<<
                <<"X-App-Token", slf.app_token>>,
                <<"X-App-Access-Sig",
                  HmacSha256Hex(Encode(slf.sumsub_secret), Encode(PyStr(message)))>>,
                <<"X-App-Access-Ts", PyStr(timestamp)>> >>))

sign_request(slf, method, path, body, now) ==
    LET timestamp == <<ToString(now)>>
        message == Upper(method.s) \o <<"\n">> \o Format(path) \o <<"\n">>
                   \o timestamp \o <<"\n">> \o JsonDumps(body)
    IN  IF slf.sumsub_secret.t = "none"
        THEN Raise("AttributeError", None)
        ELSE Return(PyDict(<<
                <<"X-App-Token", slf.app_token>>,
                <<"X-App-Access-Sig",
                  HmacSha256Hex(Encode(slf.sumsub_secret), Encode(PyStr(message)))>>,
                <<"X-App-Access-Ts", PyStr(timestamp)>> >>))

---------------------------------------------------------------------------
(* The requests library, as far as _request uses it *)

\* position of the first token tok in s, or 0
RECURSIVE IndexFrom(_, _, _)
IndexFrom(s, tok, i) ==
    IF i > Len(s) THEN 0
    ELSE IF s[i] = tok THEN i
    ELSE IndexFrom(s, tok, i + 1)

IndexOf(s, tok) == IndexFrom(s, tok, 1)

\* the part of a URL before its "?", and the query string after it
UrlNoQuery(u) == IF IndexOf(u, "?") = 0 THEN u ELSE SubSeq(u, 1, IndexOf(u, "?") - 1)
UrlQuery(u) == IF IndexOf(u, "?") = 0 THEN <<>> ELSE SubSeq(u, IndexOf(u, "?") + 1, Len(u))

HasScheme(u) == Len(u) > 0 /\ u[1] \in {"http://", "https://"}

RECURSIVE EncodeItems(_, _)
EncodeItems(items, i) ==
    IF i > Len(items) THEN <<>>
    ELSE (IF i > 1 THEN <<"&">> ELSE <<>>)
         \o <<items[i][1], "=">>
         \o (IF items[i][2].t = "bytes" THEN items[i][2].b ELSE Format(items[i][2]))
         \o EncodeItems(items, i + 1)

\* RequestEncodingMixin._encode_params
EncodeParams(params) == IF params.t = "dict" THEN EncodeItems(params.items, 1) ELSE <<>>

\* PreparedRequest.prepare_url: the query of the URL, then the encoded params
PrepareUrl(url, params) ==
    LET query == UrlQuery(url)
        enc == EncodeParams(params)
        merged == IF enc = <<>> THEN query
                  ELSE IF query = <<>> THEN enc
                  ELSE query \o <<"&">> \o enc
    IN  UrlNoQuery(url) \o (IF merged = <<>> THEN <<>> ELSE <<"?">> \o merged)

\* PreparedRequest.prepare_headers accepts str and bytes values only
ValidHeaders(headers) ==
    \A i \in 1..Len(headers.items) :
        headers.items[i][2].t \in {"str", "bytes", "hexdigest"}

\* requests.Request(method, url, json=, headers=, params=).prepare():
\* method, URL, headers and body are prepared in this order.
\* (Content-Length, which prepare_body adds, is left out.)
Prepare(method, url, body, headers, params) ==
    IF ~HasScheme(url.s) THEN Raise("MissingSchema", None)
    ELSE IF ~ValidHeaders(headers) THEN Raise("InvalidHeader", None)
    ELSE Return([method |-> Upper(method.s),
                 url |-> PrepareUrl(url.s, params),
                 headers |-> headers,
                 body |-> IF body.t = "none" THEN None
                          ELSE PyBytes(JsonDumps(body))])

\* raise_for_status that raises for server errors only
RaisesForServerErrorOnly(status_code) == 500 <= status_code /\ status_code < 600

\* Response.raise_for_status raises for 4xx and 5xx only
RaisesForStatus(status_code) == 400 <= status_code /\ status_code < 600

NotJson == [t |-> "notjson"]
NoReply == [t |-> "noreply"]
\* session.send raised instead of returning a response
NetworkError == [t |-> "neterr"]
Response(status_code, headers, json) ==
    [t |-> "response", status_code |-> status_code, headers |-> headers, json |-> json]

---------------------------------------------------------------------------
(* SumsubWrapper._request: its result and the requests it handed to send *)

Outcome(result, wire) == [result |-> result, wire |-> wire]

\* a transport that sends a failed request a second time
request_with_retry(slf, method, path, body, params, now, reply) ==
    LET headers0 == PyDict(<< <<"Content-Type", PyStr(<<"application/json">>)>>,
                              <<"Content-Encoding", PyStr(<<"utf-8">>)>> >>)
        url == PyStr(Format(slf.base_url) \o Format(path))
        signed == sign_request(slf, method, url, body, now)
    IN  IF signed.kind = "raise" THEN Outcome(signed, <<>>)
        ELSE
        LET headers == DictUpdate(headers0, signed.value)
            prepared == Prepare(method, url, body, headers, params)
        IN  IF prepared.kind = "raise" THEN Outcome(prepared, <<>>)
            ELSE
            LET wire == <<prepared.value>>
            IN  IF reply.t = "neterr"
                THEN Outcome(Raise("ConnectionError", None), wire \o wire)
                ELSE IF RaisesForStatus(reply.status_code)
                THEN Outcome(Raise("HTTPError", reply), wire \o wire)
                ELSE IF reply.json.t = "notjson"
                THEN Outcome(Raise("JSONDecodeError", None), wire)
                ELSE Outcome(Return(reply.json), wire)

request(slf, method, path, body, params, now, reply) ==
    LET headers0 == PyDict(<< <<"Content-Type", PyStr(<<"application/json">>)>>,
                              <<"Content-Encoding", PyStr(<<"utf-8">>)>> >>)
        url == PyStr(Format(slf.base_url) \o Format(path))
        signed == sign_request(slf, method, url, body, now)
    IN  IF signed.kind = "raise" THEN Outcome(signed, <<>>)
        ELSE
        LET headers == DictUpdate(headers0, signed.value)
            prepared == Prepare(method, url, body, headers, params)
        IN  IF prepared.kind = "raise" THEN Outcome(prepared, <<>>)
            ELSE
            LET wire == <<prepared.value>>
            IN  IF reply.t = "neterr"
                THEN Outcome(Raise("ConnectionError", None), wire)
                ELSE IF RaisesForStatus(reply.status_code)
                THEN Outcome(Raise("HTTPError", reply), wire)
                ELSE IF reply.json.t = "notjson"
                THEN Outcome(Raise("JSONDecodeError", None), wire)
                ELSE Outcome(Return(reply.json), wire)

---------------------------------------------------------------------------
(* The public operations.  Each yields its result, the requests it handed   *)
(* to send, the lines it printed and the files it wrote.                    *)

Effect(result, wire, printed, saved) ==
    [result |-> result, wire |-> wire, printed |-> printed, saved |-> saved]

\* create_applicant narrowing the response to its id
create_applicant_id_only(slf, external_user_id, level_name, now, reply) ==
    LET path == PyStr(<<"/resources/applicants", "?", "levelName", "=">>
                      \o Format(level_name))
        body == PyDict(<< <<"externalUserId", external_user_id>> >>)
        query_params == PyDict(<< <<"levelName", level_name>> >>)
        r == request(slf, PyStr(<<"POST">>), path, body, query_params, now, reply)
    IN  IF r.result.kind = "raise" THEN Effect(r.result, r.wire, <<>>, <<>>)
        ELSE Effect(Return(DictGet(r.result.value, "id")), r.wire, <<>>, <<>>)

create_applicant(slf, external_user_id, level_name, now, reply) ==
    LET path == PyStr(<<"/resources/applicants", "?", "levelName", "=">>
                      \o Format(level_name))
        body == PyDict(<< <<"externalUserId", external_user_id>> >>)
        query_params == PyDict(<< <<"levelName", level_name>> >>)
        r == request(slf, PyStr(<<"POST">>), path, body, query_params, now, reply)
    IN  Effect(r.result, r.wire, <<>>, <<>>)

\* the attribute obj.headers: only a Response object has one
GetHeaders(obj) ==
    IF obj.t = "response" THEN Return(obj.headers) ELSE Raise("AttributeError", None)

\* d[k]
GetItem(d, k) == IF DictHas(d, k) THEN Return(DictGet(d, k)) ELSE Raise("KeyError", None)

\* add_id_document sending the request before it opens the document
add_id_document_request_first(slf, applicant_id, doc, now, reply) ==
    LET path == PyStr(<<"/resources/applicants/">> \o Format(applicant_id)
                      \o <<"/info/idDoc">>)
        body == PyDict(<< <<"metadata",
                  PyStr(<<"{", "\"", "idDocType", "\"", ":", "\"", "PASSPORT", "\"",
                          ", ", "\"", "country", "\"", ":", "\"", "USA", "\"", "}">>)>> >>)
        r == request(slf, PyStr(<<"POST">>), path, body, None, now, reply)
    IN  IF r.result.kind = "raise" THEN Effect(r.result, r.wire, <<>>, <<>>)
        ELSE IF doc.t = "none"
        THEN Effect(Raise("FileNotFoundError", None), r.wire, <<>>, <<>>)
        ELSE Effect(Raise("AttributeError", None), r.wire, <<>>, <<>>)

add_id_document(slf, applicant_id, doc, now, reply) ==
    IF doc.t = "none"
    THEN Effect(Raise("FileNotFoundError", None), <<>>, <<>>, <<>>)
    ELSE
    LET path == PyStr(<<"/resources/applicants/">> \o Format(applicant_id)
                      \o <<"/info/idDoc">>)
        body == PyDict(<< <<"metadata",
                  PyStr(<<"{", "\"", "idDocType", "\"", ":", "\"", "PASSPORT", "\"",
                          ", ", "\"", "country", "\"", ":", "\"", "USA", "\"", "}">>)>> >>)
        files == PyDict(<< <<"content", doc>> >>)
        \* files is the fourth positional argument of _request: its params
        r == request(slf, PyStr(<<"POST">>), path, body, files, now, reply)
    IN  IF r.result.kind = "raise" THEN Effect(r.result, r.wire, <<>>, <<>>)
        ELSE
        LET response == r.result.value
            headers == GetHeaders(response)
        IN  IF headers.kind = "raise" THEN Effect(headers, r.wire, <<>>, <<>>)
            ELSE Effect(GetItem(headers.value, "X-Image-Id"), r.wire, <<>>, <<>>)

\* get_verification_status returning the whole response
get_verification_status_whole(slf, applicant_id, now, reply) ==
    LET path == PyStr(<<"/resources/applicants/">> \o Format(applicant_id)
                      \o <<"/requiredIdDocsStatus">>)
        r == request(slf, PyStr(<<"GET">>), path, None, None, now, reply)
    IN  IF r.result.kind = "raise" THEN Effect(r.result, r.wire, <<>>, <<>>)
        ELSE Effect(r.result, r.wire,
                    << <<"Review Status: ">> \o Format(DictGet(r.result.value, "reviewStatus")) >>,
                    <<>>)

get_verification_status(slf, applicant_id, now, reply) ==
    LET path == PyStr(<<"/resources/applicants/">> \o Format(applicant_id)
                      \o <<"/requiredIdDocsStatus">>)
        r == request(slf, PyStr(<<"GET">>), path, None, None, now, reply)
    IN  IF r.result.kind = "raise" THEN Effect(r.result, r.wire, <<>>, <<>>)
        ELSE
        LET response == r.result.value
        IN  IF response.t # "dict"
            THEN Effect(Raise("AttributeError", None), r.wire, <<>>, <<>>)
            ELSE
            LET review_status == DictGet(response, "reviewStatus")
            IN  Effect(Return(review_status), r.wire,
                       << <<"Review Status: ">> \o Format(review_status) >>, <<>>)

get_verification_data(slf, applicant_id, now, reply) ==
    LET path == PyStr(<<"/resources/applicants/">> \o Format(applicant_id)
                      \o <<"/info">>)
        r == request(slf, PyStr(<<"GET">>), path, None, None, now, reply)
    IN  IF r.result.kind = "raise" THEN Effect(r.result, r.wire, <<>>, <<>>)
        ELSE
        LET verification_data == r.result.value
        IN  Effect(Return(verification_data), r.wire, <<>>,
                   << <<Format(applicant_id) \o <<".json">>,
                        JsonDumps(verification_data)>> >>)

---------------------------------------------------------------------------
(* Inputs *)

Epoch == 1700000000

Secrets == {None, PyStr(<<"s3cr3t">>)}
AppTokens == {None, PyStr(<<"tok-1">>)}
BaseUrls == {None, PyStr(<<"https://", "api.sumsub.com">>)}

ApplicantIds == {PyStr(<<"app-1">>)}
ExternalUserIds == {PyInt(123456)}
LevelNames == {PyStr(<<"basic-kyc-level">>)}
DocumentBytes == PyBytes(<<"JPEG">>)

JsonBodies ==
    { NotJson,
      PyDict(<< <<"id", PyStr(<<"abc123">>)>> >>),
      PyDict(<< <<"reviewStatus", PyStr(<<"pending">>)>> >>) }

\* every response carries the header add_id_document asks for
ResponseHeaders == { PyDict(<< <<"X-Image-Id", PyStr(<<"img-1">>)>> >>) }

\* 301, 302, 303, 307 and 308 are left out: session.send follows them
StatusCodes == {200, 304, 400, 500}

Replies ==
    {Response(c, h, j) : c \in StatusCodes, h \in ResponseHeaders, j \in JsonBodies}
    \cup {NetworkError}

SignMethods == {PyStr(<<"get">>), PyStr(<<"POST">>)}
SignPaths == {PyStr(<<"/resources/applicants">>),
              PyStr(<<"/resources/applicants/", "app-1", "/info">>)}
SignBodies == {None, PyDict(<< <<"externalUserId", PyInt(123456)>> >>)}

---------------------------------------------------------------------------
(* The state machine *)

Call(op, args, e, reply) ==
    [op |-> op, args |-> args, result |-> e.result, wire |-> e.wire, at |-> clock,
     \* what open("some_document.jpg", "rb") found, for the one call that opens it
     opened |-> IF op = "add_id_document" THEN document ELSE None,
     reply |-> IF e.wire = <<>> THEN NoReply ELSE reply]

RECURSIVE WriteAll(_, _, _)
WriteAll(files, saved, i) ==
    IF i > Len(saved) THEN files
    ELSE WriteAll(DictSet(files, saved[i][1], saved[i][2]), saved, i + 1)

Apply(op, args, e, reply) ==
    /\ sent' = sent \o e.wire
    /\ stdout' = stdout \o e.printed
    /\ written' = WriteAll(written, e.saved, 1)
    /\ last' = Call(op, args, e, reply)
    /\ UNCHANGED <<self, clock, document>>

Init ==
    /\ self \in [sumsub_secret : Secrets, app_token : AppTokens, base_url : BaseUrls]
    /\ clock = Epoch
    /\ document \in {None, DocumentBytes}
    /\ written = PyDict(<<>>)
    /\ stdout = <<>>
    /\ sent = <<>>
    /\ last = [op |-> "none", args |-> <<>>, result |-> Return(None), wire |-> <<>>,
               at |-> Epoch, opened |-> None, reply |-> NoReply]

Tick ==
    /\ clock < Epoch + MaxTicks
    /\ clock' = clock + 1
    /\ UNCHANGED <<self, document, written, stdout, sent, last>>

PutDocument ==
    /\ document = None
    /\ document' = DocumentBytes
    /\ UNCHANGED <<self, clock, written, stdout, sent, last>>

RemoveDocument ==
    /\ document # None
    /\ document' = None
    /\ UNCHANGED <<self, clock, written, stdout, sent, last>>

SignRequest ==
    \E method \in SignMethods, path \in SignPaths, body \in SignBodies :
        Apply("_sign_request", <<method, path, body>>,
              Effect(sign_request(self, method, path, body, clock), <<>>, <<>>, <<>>),
              NoReply)

CreateApplicant ==
    /\ Len(sent) < MaxSent
    /\ \E external_user_id \in ExternalUserIds, level_name \in LevelNames,
          reply \in Replies :
        Apply("create_applicant", <<external_user_id, level_name>>,
              create_applicant(self, external_user_id, level_name, clock, reply), reply)

AddIdDocument ==
    /\ Len(sent) < MaxSent
    /\ \E applicant_id \in ApplicantIds, reply \in Replies :
        Apply("add_id_document", <<applicant_id>>,
              add_id_document(self, applicant_id, document, clock, reply), reply)

GetVerificationStatus ==
    /\ Len(sent) < MaxSent
    /\ \E applicant_id \in ApplicantIds, reply \in Replies :
        Apply("get_verification_status", <<applicant_id>>,
              get_verification_status(self, applicant_id, clock, reply), reply)

GetVerificationData ==
    /\ Len(sent) < MaxSent
    /\ \E applicant_id \in ApplicantIds, reply \in Replies :
        Apply("get_verification_data", <<applicant_id>>,
              get_verification_data(self, applicant_id, clock, reply), reply)

Next ==
    \/ Tick
    \/ PutDocument
    \/ RemoveDocument
    \/ SignRequest
    \/ CreateApplicant
    \/ AddIdDocument
    \/ GetVerificationStatus
    \/ GetVerificationData

Spec == Init /\ [][Next]_vars

---------------------------------------------------------------------------
(* What the claims speak of *)

PublicOps ==
    {"create_applicant", "add_id_document", "get_verification_status",
     "get_verification_data"}

Raised(result, exc) == result.kind = "raise" /\ result.exc = exc

CredentialsPresent ==
    /\ self.sumsub_secret # None
    /\ self.app_token # None
    /\ self.base_url # None

GotResponse == last.op \in PublicOps /\ last.reply.t = "response"

Is2xx(status_code) == 200 <= status_code /\ status_code <= 299

\* the headers a sent request carries
SigOf(req) == DictGet(req.headers, "X-App-Access-Sig")
TsOf(req) == DictGet(req.headers, "X-App-Access-Ts")
PairOf(req) == <<TsOf(req), SigOf(req)>>

\* the second line of a signed message: the path that was signed
SignedPath(msg) ==
    LET rest == SubSeq(msg, 3, Len(msg))
    IN  SubSeq(rest, 1, IndexOf(rest, "\n") - 1)

\* a sent URL without its scheme and host
ServerRelative(u) == SubSeq(u, 3, Len(u))

---------------------------------------------------------------------------
(* C1: a signature the signer returns is the hex HMAC-SHA256, keyed by the  *)
(* UTF-8 secret, of the UTF-8 message                                       *)
(*   upper(method) "\n" path "\n" timestamp "\n" json(body),                *)
(* where json(absent) is null and the timestamp is the string returned in   *)
(* the X-App-Access-Ts header, the clock at the time of the call.           *)

C1_Method(m) == IF m \in {<<"get">>, <<"GET">>} THEN <<"GET">> ELSE <<"POST">>

C1_Json(b) ==
    IF b = None THEN <<"null">>
    ELSE <<"{", "\"", "externalUserId", "\"", ": ", "123456", "}">>

C1_SignatureIsHmacOfCanonicalMessage ==
    (last.op = "_sign_request" /\ last.result.kind = "return") =>
        LET m == last.args[1]
            p == last.args[2]
            b == last.args[3]
            t == DictGet(last.result.value, "X-App-Access-Ts")
        IN  /\ t = PyStr(<<ToString(last.at)>>)
            /\ DictGet(last.result.value, "X-App-Access-Sig")
               = HmacSha256Hex(
                    PyBytes(self.sumsub_secret.s),
                    PyBytes(C1_Method(m.s) \o <<"\n">> \o p.s \o <<"\n">> \o t.s
                            \o <<"\n">> \o C1_Json(b)))

\* a lower-case method and an absent body were signed
C1_Witness ==
    /\ last.op = "_sign_request"
    /\ last.result.kind = "return"
    /\ last.args[1] = PyStr(<<"get">>)
    /\ last.args[3] = None

(* C2: for every request sent, the path in the signed message is the        *)
(* server-relative path of the request sent, query string included: it      *)
(* holds no base URL and its query string is that of the sent request.      *)
C2_SignedPathIsSentRelativePath ==
    \A i \in 1..Len(sent) :
        LET signed == SignedPath(SigOf(sent[i]).msg.b)
        IN  /\ ~HasScheme(signed)
            /\ UrlQuery(signed) = UrlQuery(sent[i].url)
            /\ signed = ServerRelative(sent[i].url)

(* C3: a response whose status is outside 200..299 makes a public           *)
(* operation fail with an HTTPError that carries the response.              *)
C3_NonSuccessStatusRaisesHttpError ==
    (GotResponse /\ ~Is2xx(last.reply.status_code)) =>
        (Raised(last.result, "HTTPError") /\ last.result.response = last.reply)

(* C3, amended: a response whose status is in 400..599 makes a public       *)
(* operation fail with an HTTPError that carries the response (its status   *)
(* code and body); the operation returns no value.                          *)
C3_ErrorStatusRaisesHttpError ==
    (GotResponse /\ 400 <= last.reply.status_code /\ last.reply.status_code <= 599) =>
        (Raised(last.result, "HTTPError") /\ last.result.response = last.reply)

\* the document upload was answered 400
C3_Witness ==
    /\ GotResponse
    /\ last.op = "add_id_document"
    /\ last.reply.status_code = 400
    /\ Raised(last.result, "HTTPError")
    /\ last.result.response.status_code = 400

(* C4: when the document exists and the upload is answered 2xx,             *)
(* add_id_document returns the X-Image-Id header of that response.          *)
C4_ReturnsImageIdHeader ==
    (GotResponse /\ last.op = "add_id_document" /\ Is2xx(last.reply.status_code)) =>
        last.result = Return(DictGet(last.reply.headers, "X-Image-Id"))

(* C5: when the document file is missing, add_id_document fails with        *)
(* FileNotFoundError and has sent no request.                               *)
C5_MissingDocumentFailsBeforeAnyRequest ==
    (last.op = "add_id_document" /\ last.opened = None) =>
        (last.result = Raise("FileNotFoundError", None) /\ last.wire = <<>>)

\* the upload failed on the missing file although the client could have sent
C5_Witness ==
    /\ last.op = "add_id_document"
    /\ last.opened = None
    /\ Raised(last.result, "FileNotFoundError")
    /\ last.wire = <<>>
    /\ CredentialsPresent

(* C6: when applicant creation is answered 2xx with a JSON body,            *)
(* create_applicant returns that parsed JSON value unmodified.              *)
C6_CreateReturnsParsedBody ==
    (GotResponse /\ last.op = "create_applicant" /\ Is2xx(last.reply.status_code)
        /\ last.reply.json # NotJson) =>
        last.result = Return(last.reply.json)

\* {"id": "abc123"} came back as it was received
C6_Witness ==
    /\ GotResponse
    /\ last.op = "create_applicant"
    /\ last.reply.json = PyDict(<< <<"id", PyStr(<<"abc123">>)>> >>)
    /\ last.result.kind = "return"
    /\ last.result.value.items = << <<"id", PyStr(<<"abc123">>)>> >>

(* C7: when the status request is answered 2xx with a JSON object whose     *)
(* reviewStatus is v, get_verification_status returns v.                    *)
C7_StatusReturnsReviewStatus ==
    (GotResponse /\ last.op = "get_verification_status"
        /\ Is2xx(last.reply.status_code) /\ last.reply.json.t = "dict") =>
        \A i \in 1..Len(last.reply.json.items) :
            last.reply.json.items[i][1] = "reviewStatus" =>
                last.result = Return(last.reply.json.items[i][2])

\* {"reviewStatus": "pending"} gave "pending"
C7_Witness ==
    /\ GotResponse
    /\ last.op = "get_verification_status"
    /\ last.reply.json = PyDict(<< <<"reviewStatus", PyStr(<<"pending">>)>> >>)
    /\ last.result = Return(PyStr(<<"pending">>))

(* C8: with the secret, the app token or the base URL absent, an operation  *)
(* still sends its request: nothing fails locally before the request is     *)
(* sent (a missing document aside).                                         *)
C8_AbsentCredentialStillSends ==
    (last.op \in PublicOps /\ ~CredentialsPresent
        /\ ~Raised(last.result, "FileNotFoundError")) =>
        Len(last.wire) = 1

C10_LocalFailure ==
    \/ Raised(last.result, "FileNotFoundError")
    \/ ~CredentialsPresent

====
